---- MODULE Spec2Model ----
(***************************************************************************)
(* Model of the locale tools of this repository:                           *)
(*   - src/generate-locale.mjs : spreadsheet rows -> one nested tree per   *)
(*     locale column (parseKey / ensureContainer / setDeep), then the      *)
(*     optional reference fill (fillMissingFromRef / createFromRef);       *)
(*   - src/sync-structure.mjs  : reorderLike, the reference-driven merge   *)
(*     and reorder of a target tree, with its missing/extra report.        *)
(*                                                                         *)
(* Strings are sequences of one-character strings, so that the parsers     *)
(* and the path formatting are computed as the code computes them.         *)
(*                                                                         *)
(* A JavaScript value is a record [t, v, ks, vs]:                          *)
(*   t  : "obj" | "arr" | "str" | "num" | "null" | "undef"                 *)
(*   v  : the text of a string/number leaf (<<>> otherwise)                *)
(*   ks : the own property names, in JavaScript's own-property order       *)
(*        (canonical array indices ascending, then the other names in      *)
(*        insertion order); for an array the indices are its elements      *)
(*   vs : the property values, parallel to ks                              *)
(***************************************************************************)
EXTENDS Integers, Sequences, FiniteSets, TLC

VARIABLES
    prog,        \* which script runs: "sync" (sync-structure), "gen" (generate-locale) or "part" (unnamed/part_000)
    missingMode, \* --missing, lower-cased
    pc,          \* position in the script
    ref,         \* sync: the parsed reference document
    tgt,         \* sync: the parsed target document
    normalized,  \* sync: the tree returned by reorderLike
    stats,       \* sync: { missing: [], extra: [] } of the last call
    firstPass,   \* sync: [out, stats] of the first call, kept when the output is merged again
    refObj,      \* gen: the parsed --ref document, NoRef without --ref
    outputs,     \* gen: locale column -> tree
    warnings,    \* gen: the warnings pushed so far
    rowIdx,      \* gen: i of the row loop = number of rows consumed
    mergeIdx,    \* gen: number of locale columns already merged with refObj
    lastRow      \* gen: the row consumed last (its cells and what each setDeep call returned)

vars == <<prog, missingMode, pc, ref, tgt, normalized, stats, firstPass,
          refObj, outputs, warnings, rowIdx, mergeIdx, lastRow>>

\* --------------------------------------------------------------------------
\* Bounds of the model
\* --------------------------------------------------------------------------
MaxRefSize == 3
MaxTgtSize == 3
MaxRows == 2

\* --------------------------------------------------------------------------
\* JavaScript values
\* --------------------------------------------------------------------------
Str(s) == [t |-> "str", v |-> s, ks |-> <<>>, vs |-> <<>>]
Num(s) == [t |-> "num", v |-> s, ks |-> <<>>, vs |-> <<>>]
Null == [t |-> "null", v |-> <<>>, ks |-> <<>>, vs |-> <<>>]
Undefined == [t |-> "undef", v |-> <<>>, ks |-> <<>>, vs |-> <<>>]
EmptyObj == [t |-> "obj", v |-> <<>>, ks |-> <<>>, vs |-> <<>>]
EmptyArr == [t |-> "arr", v |-> <<>>, ks |-> <<>>, vs |-> <<>>]

\* Body(x) with x evaluated once, whatever the number of its uses in Body
With(x, Body(_)) == CHOOSE y \in {Body(v) : v \in {x}} : TRUE

\* Array.isArray(v)
IsArray(n) == n.t = "arr"
\* isObject(v): v != null && typeof v === "object" && !Array.isArray(v)
isObject(n) == n.t = "obj"
\* v == null  (null or undefined)
IsNullish(n) == n.t \in {"null", "undef"}
IsContainer(n) == n.t \in {"obj", "arr"}

Digits == <<"0", "1", "2", "3", "4", "5", "6", "7", "8", "9">>
IsDigit(c) == \E i \in 1..10 : Digits[i] = c
DigitVal(c) == (CHOOSE i \in 1..10 : Digits[i] = c) - 1

\* Number("007") = 7
RECURSIVE NumberOf(_)
NumberOf(ds) ==
    IF ds = <<>> THEN 0
    ELSE 10 * NumberOf(SubSeq(ds, 1, Len(ds) - 1)) + DigitVal(ds[Len(ds)])

\* String(7) = "7": the decimal text of a non-negative integer
RECURSIVE Dec(_)
Dec(n) == IF n < 10 THEN <<Digits[n + 1]>> ELSE Dec(n \div 10) \o <<Digits[(n % 10) + 1]>>

\* A property name that is a canonical array index ("0", "7", "10"; not "01")
IsIndexKey(k) ==
    /\ Len(k) > 0
    /\ \A i \in 1..Len(k) : IsDigit(k[i])
    /\ (Len(k) = 1 \/ k[1] # "0")

IndexOfKey(n, k) == CHOOSE i \in 1..Len(n.ks) : n.ks[i] = k
\* k in obj (own properties only)
Has(n, k) == \E i \in 1..Len(n.ks) : n.ks[i] = k
\* obj[k]; a one-character string answers index 0 with itself
Get(n, k) ==
    IF Has(n, k) THEN n.vs[IndexOfKey(n, k)]
    ELSE IF n.t = "str" /\ IsIndexKey(k) /\ NumberOf(k) < Len(n.v)
         THEN Str(<<n.v[NumberOf(k) + 1]>>)
    ELSE Undefined

InsertAt(s, i, x) == SubSeq(s, 1, i - 1) \o <<x>> \o SubSeq(s, i, Len(s))

\* Position at which JavaScript lists a new own property k of n
NewKeyPos(n, k) ==
    IF IsIndexKey(k)
    THEN 1 + Cardinality({i \in 1..Len(n.ks) :
                             IsIndexKey(n.ks[i]) /\ NumberOf(n.ks[i]) < NumberOf(k)})
    ELSE Len(n.ks) + 1

\* obj[k] = v on an object or an array
Put(n, k, val) ==
    IF Has(n, k)
    THEN [n EXCEPT !.vs[IndexOfKey(n, k)] = val]
    ELSE [n EXCEPT !.ks = InsertAt(n.ks, NewKeyPos(n, k), k),
                   !.vs = InsertAt(n.vs, NewKeyPos(n, k), val)]

\* arr.length: one more than the largest index (elements below may be holes)
Length(n) ==
    LET idx == {NumberOf(n.ks[i]) : i \in {j \in 1..Len(n.ks) : IsIndexKey(n.ks[j])}}
    IN IF idx = {} THEN 0 ELSE 1 + (CHOOSE m \in idx : \A x \in idx : x <= m)

\* arr.push(v)
Push(n, val) == Put(n, Dec(Length(n)), val)

\* --------------------------------------------------------------------------
\* generate-locale.mjs: parseKey
\* --------------------------------------------------------------------------
IsSep(c) == c \in {".", "["}

\* End of the maximal run of characters other than "." and "[" starting at i
RECURSIVE RunEnd(_, _)
RunEnd(key, i) ==
    IF i < Len(key) /\ ~IsSep(key[i + 1]) THEN RunEnd(key, i + 1) ELSE i

\* End of the maximal run of digits starting at i (i - 1 when there is none)
RECURSIVE DigitsEnd(_, _)
DigitsEnd(key, i) ==
    IF i <= Len(key) /\ IsDigit(key[i]) THEN DigitsEnd(key, i + 1) ELSE i - 1

PropToken(name) == [num |-> FALSE, key |-> name]
NumToken(n) == [num |-> TRUE, key |-> Dec(n)]

\* The loop of re.exec over /([^.[]+)|\[(\d+)\]/g from position i
RECURSIVE ParseFrom(_, _, _)
ParseFrom(key, i, out) ==
    IF i > Len(key) THEN out
    ELSE IF ~IsSep(key[i])
    THEN ParseFrom(key, RunEnd(key, i) + 1,
                   Append(out, PropToken(SubSeq(key, i, RunEnd(key, i)))))
    ELSE IF /\ key[i] = "["
            /\ DigitsEnd(key, i + 1) >= i + 1
            /\ DigitsEnd(key, i + 1) < Len(key)
            /\ key[DigitsEnd(key, i + 1) + 1] = "]"
    THEN ParseFrom(key, DigitsEnd(key, i + 1) + 2,
                   Append(out, NumToken(NumberOf(SubSeq(key, i + 1, DigitsEnd(key, i + 1))))))
    ELSE ParseFrom(key, i + 1, out)

parseKey(key) == ParseFrom(key, 1, <<>>)

\* --------------------------------------------------------------------------
\* generate-locale.mjs: ensureContainer, setDeep
\* --------------------------------------------------------------------------
NoError == <<>>
\* new Error(`Expected array while setting "${key}"`)
ExpectedArray == <<"Expected array">>
\* A write to a property of a primitive string: modules run in strict mode
TypeError == <<"TypeError">>

\* wantsArray ? [] : {}
Fresh(wantsArray) == IF wantsArray THEN EmptyArr ELSE EmptyObj

\* parent[prop] = c; a primitive parent makes the assignment throw
Assign(st, prop, c) ==
    IF st.err # NoError THEN st
    ELSE IF ~IsContainer(st.parent) THEN [st EXCEPT !.err = TypeError]
    ELSE [st EXCEPT !.parent = Put(st.parent, prop, c)]

\* The three statements of ensureContainer, in order, on the parent as it is
\* after the statement before.  Result: the parent after the call, the child
\* returned, and the error thrown (NoError if none).
ensureContainer(parent, prop, nextToken) ==
    LET wantsArray == nextToken.num
        s0 == [parent |-> parent, err |-> NoError]
        s1 == IF IsNullish(Get(s0.parent, prop))
              THEN Assign(s0, prop, Fresh(wantsArray)) ELSE s0
        s2 == IF s1.err = NoError /\ wantsArray /\ ~IsArray(Get(s1.parent, prop))
              THEN Assign(s1, prop, EmptyArr) ELSE s1
        s3 == IF s2.err = NoError /\ ~wantsArray /\ IsArray(Get(s2.parent, prop))
              THEN Assign(s2, prop, EmptyObj) ELSE s2
    IN [parent |-> s3.parent, child |-> Get(s3.parent, prop), err |-> s3.err]

\* A container holds its child by reference: what the walk does below the
\* child is seen through the parent
Relink(parent, prop, child) ==
    IF IsContainer(parent) THEN Put(parent, prop, child) ELSE parent

\* The loop of setDeep from token i with current container cur.  Result: cur
\* after the loop (writes made before a throw stay), the error thrown, and
\* kinds, the kind of cur at each iteration the loop entered, from i on.
RECURSIVE SetFrom(_, _, _, _)
\* A loop whose index step creates the missing child before it tests that
\* cur is an array
SetFromChecksLate(cur, tokens, i, value) ==
    LET t == tokens[i] IN
    IF i = Len(tokens)
    THEN IF IsContainer(cur)
         THEN [tree |-> Put(cur, t.key, value), err |-> NoError, kinds |-> <<cur.t>>]
         ELSE [tree |-> cur, err |-> TypeError, kinds |-> <<cur.t>>]
    ELSE IF t.num
    THEN With(IF IsContainer(cur) /\ IsNullish(Get(cur, t.key))
              THEN Put(cur, t.key, Fresh(tokens[i + 1].num)) ELSE cur,
              LAMBDA cur1 :
         IF ~IsArray(cur) THEN [tree |-> cur1, err |-> ExpectedArray, kinds |-> <<cur.t>>]
         ELSE With(SetFrom(Get(cur1, t.key), tokens, i + 1, value), LAMBDA r :
                   [tree |-> Relink(cur1, t.key, r.tree), err |-> r.err,
                    kinds |-> <<cur.t>> \o r.kinds]))
    ELSE With(ensureContainer(cur, t.key, tokens[i + 1]), LAMBDA e :
         IF e.err # NoError THEN [tree |-> e.parent, err |-> e.err, kinds |-> <<cur.t>>]
         ELSE With(SetFrom(e.child, tokens, i + 1, value), LAMBDA r :
                   [tree |-> Relink(e.parent, t.key, r.tree), err |-> r.err,
                    kinds |-> <<cur.t>> \o r.kinds]))

SetFrom(cur, tokens, i, value) ==
    LET t == tokens[i] IN
    IF i = Len(tokens)
    THEN \* cur[t] = value
         IF IsContainer(cur)
         THEN [tree |-> Put(cur, t.key, value), err |-> NoError, kinds |-> <<cur.t>>]
         ELSE [tree |-> cur, err |-> TypeError, kinds |-> <<cur.t>>]
    ELSE IF t.num
    THEN IF ~IsArray(cur) THEN [tree |-> cur, err |-> ExpectedArray, kinds |-> <<cur.t>>]
         ELSE With(IF IsNullish(Get(cur, t.key))
                   THEN Put(cur, t.key, Fresh(tokens[i + 1].num)) ELSE cur,
                   LAMBDA cur1 :
              With(SetFrom(Get(cur1, t.key), tokens, i + 1, value), LAMBDA r :
                   [tree |-> Relink(cur1, t.key, r.tree), err |-> r.err,
                    kinds |-> <<cur.t>> \o r.kinds]))
    ELSE With(ensureContainer(cur, t.key, tokens[i + 1]), LAMBDA e :
         IF e.err # NoError THEN [tree |-> e.parent, err |-> e.err, kinds |-> <<cur.t>>]
         ELSE With(SetFrom(e.child, tokens, i + 1, value), LAMBDA r :
                   [tree |-> Relink(e.parent, t.key, r.tree), err |-> r.err,
                    kinds |-> <<cur.t>> \o r.kinds]))

\* setDeep(obj, key, value): zero tokens leave obj as it is and throw nothing
setDeep(obj, key, value) ==
    IF parseKey(key) = <<>> THEN [tree |-> obj, err |-> NoError, kinds |-> <<>>]
    ELSE SetFrom(obj, parseKey(key), 1, value)

\* --------------------------------------------------------------------------
\* generate-locale.mjs: isBlank, splitMultiKey
\* --------------------------------------------------------------------------
IsSpace(c) == c \in {" ", "\t", "\n"}

\* String.prototype.trim
RECURSIVE TrimLeft(_)
TrimLeft(s) == IF s # <<>> /\ IsSpace(s[1]) THEN TrimLeft(Tail(s)) ELSE s
RECURSIVE TrimRight(_)
TrimRight(s) ==
    IF s # <<>> /\ IsSpace(s[Len(s)]) THEN TrimRight(SubSeq(s, 1, Len(s) - 1)) ELSE s
Trim(s) == TrimRight(TrimLeft(s))

\* String(v) of a string or number cell
StringOf(cell) == cell.v

\* An isBlank that compares without trim()
isBlankUntrimmed(cell) == IsNullish(cell) \/ StringOf(cell) = <<>>

isBlank(cell) == IsNullish(cell) \/ Trim(StringOf(cell)) = <<>>

IsDelim(c) == c \in {"\n", "|", ","}

\* s.split(/[\n|,]+/g): the pieces between maximal runs of delimiters
RECURSIVE SplitFrom(_, _, _, _)
SplitFrom(s, i, piece, out) ==
    IF i > Len(s) THEN Append(out, piece)
    ELSE IF IsDelim(s[i])
    THEN IF i > 1 /\ IsDelim(s[i - 1]) THEN SplitFrom(s, i + 1, piece, out)
         ELSE SplitFrom(s, i + 1, <<>>, Append(out, piece))
    ELSE SplitFrom(s, i + 1, Append(piece, s[i]), out)

\* String(cell || "").split(...).map(trim).filter(Boolean)
splitMultiKey(cell) ==
    LET raw == IF IsNullish(cell) THEN <<>> ELSE StringOf(cell)
        pieces == SplitFrom(raw, 1, <<>>, <<>>)
        trimmed == [i \in 1..Len(pieces) |-> Trim(pieces[i])]
    IN SelectSeq(trimmed, LAMBDA p : p # <<>>)

\* --------------------------------------------------------------------------
\* sync-structure.mjs: missingLeaf, reorderLike
\* --------------------------------------------------------------------------
IsUndefined(n) == n.t = "undef"
Max(a, b) == IF a >= b THEN a ELSE b

\* A missingLeaf that returns nothing in "null" mode, so the placeholder is
\* undefined
missingLeafUndefined(refLeaf) ==
    IF missingMode = "null" THEN Undefined
    ELSE IF missingMode = "ref" THEN refLeaf
    ELSE Str(<<>>)

\* A missingLeaf that blanks strings only and copies any other reference leaf
missingLeafKeepsType(refLeaf) ==
    IF missingMode = "null" THEN Null
    ELSE IF missingMode = "ref" THEN refLeaf
    ELSE IF refLeaf.t = "str" THEN Str(<<>>)
    ELSE refLeaf

\* Placeholder for a leaf the target lacks; reads the script's missingMode
missingLeaf(refLeaf) ==
    IF missingMode = "null" THEN Null
    ELSE IF missingMode = "ref" THEN refLeaf
    ELSE Str(<<>>)

\* `${keyPath}[${i}]`
IndexPath(keyPath, i) == keyPath \o <<"[">> \o Dec(i) \o <<"]">>
\* keyPath ? `${keyPath}.${k}` : k
PropPath(keyPath, k) == IF keyPath # <<>> THEN keyPath \o <<".">> \o k ELSE k

NoStats == [missing |-> <<>>, extra |-> <<>>]
PushMissing(st, p) == [st EXCEPT !.missing = Append(@, p)]
\* A report that files a target-only path under missing
PushExtraAsMissing(st, p) == [st EXCEPT !.missing = Append(@, p)]
PushExtra(st, p) == [st EXCEPT !.extra = Append(@, p)]

RECURSIVE reorderLike(_, _, _, _)
RECURSIVE ArrayLoop(_, _, _, _, _)
RECURSIVE RefKeysLoop(_, _, _, _, _)
RECURSIVE TgtKeysLoop(_, _, _, _, _)

\* for (let i = 0; i < maxLen; i++) of the array branch, from i with out/stats acc
ArrayLoop(refArr, tgtArr, keyPath, i, acc) ==
    IF i >= Max(Length(refArr), Length(tgtArr)) THEN acc
    ELSE
    LET refVal == Get(refArr, Dec(i))
        tgtVal == Get(tgtArr, Dec(i))
        p == IndexPath(keyPath, i)
    IN
    IF IsUndefined(refVal) /\ ~IsUndefined(tgtVal)
    THEN ArrayLoop(refArr, tgtArr, keyPath, i + 1,
                   [out |-> Push(acc.out, tgtVal), stats |-> PushExtra(acc.stats, p)])
    ELSE IF IsUndefined(tgtVal)
    THEN With(IF isObject(refVal) \/ IsArray(refVal)
              THEN reorderLike(refVal, Undefined, p, acc.stats)
              ELSE [out |-> missingLeaf(refVal), stats |-> acc.stats],
              LAMBDA r :
              ArrayLoop(refArr, tgtArr, keyPath, i + 1,
                        [out |-> Push(acc.out, r.out), stats |-> PushMissing(r.stats, p)]))
    ELSE With(IF isObject(refVal) \/ IsArray(refVal)
              THEN reorderLike(refVal, tgtVal, p, acc.stats)
              ELSE [out |-> tgtVal, stats |-> acc.stats],
              LAMBDA r :
              ArrayLoop(refArr, tgtArr, keyPath, i + 1,
                        [out |-> Push(acc.out, r.out), stats |-> r.stats]))

\* for (const k of Object.keys(refObj)), from the j-th key
RefKeysLoop(refO, tgtO, keyPath, j, acc) ==
    IF j > Len(refO.ks) THEN acc
    ELSE
    LET k == refO.ks[j]
        p == PropPath(keyPath, k)
        refVal == refO.vs[j]
        tgtVal == Get(tgtO, k)
    IN
    IF ~Has(tgtO, k)
    THEN With(IF isObject(refVal) \/ IsArray(refVal)
              THEN reorderLike(refVal, Undefined, p, acc.stats)
              ELSE [out |-> missingLeaf(refVal), stats |-> acc.stats],
              LAMBDA r :
              RefKeysLoop(refO, tgtO, keyPath, j + 1,
                          [out |-> Put(acc.out, k, r.out), stats |-> PushMissing(r.stats, p)]))
    ELSE With(IF isObject(refVal) \/ IsArray(refVal)
              THEN reorderLike(refVal, tgtVal, p, acc.stats)
              ELSE [out |-> tgtVal, stats |-> acc.stats],
              LAMBDA r :
              RefKeysLoop(refO, tgtO, keyPath, j + 1,
                          [out |-> Put(acc.out, k, r.out), stats |-> r.stats]))

\* for (const k of Object.keys(tgtObj)), from the j-th key
TgtKeysLoop(refO, tgtO, keyPath, j, acc) ==
    IF j > Len(tgtO.ks) THEN acc
    ELSE IF Has(refO, tgtO.ks[j])
    THEN TgtKeysLoop(refO, tgtO, keyPath, j + 1, acc)
    ELSE TgtKeysLoop(refO, tgtO, keyPath, j + 1,
                     [out |-> Put(acc.out, tgtO.ks[j], tgtO.vs[j]),
                      stats |-> PushExtra(acc.stats, PropPath(keyPath, tgtO.ks[j]))])

\* reorderLike(refNode, tgtNode, keyPath, stats): the tree returned and stats
\* after the call
reorderLike(refNode, tgtNode, keyPath, st) ==
    IF IsArray(refNode)
    THEN ArrayLoop(refNode, IF IsArray(tgtNode) THEN tgtNode ELSE EmptyArr, keyPath, 0,
                   [out |-> EmptyArr, stats |-> st])
    ELSE IF isObject(refNode)
    THEN LET tgtO == IF isObject(tgtNode) THEN tgtNode ELSE EmptyObj
         IN TgtKeysLoop(refNode, tgtO, keyPath, 1,
                        RefKeysLoop(refNode, tgtO, keyPath, 1,
                                    [out |-> EmptyObj, stats |-> st]))
    ELSE IF IsUndefined(tgtNode)
    THEN [out |-> missingLeaf(refNode),
          stats |-> PushMissing(st, IF keyPath # <<>> THEN keyPath ELSE <<"(root)">>)]
    ELSE [out |-> tgtNode, stats |-> st]

\* --------------------------------------------------------------------------
\* generate-locale.mjs: createFromRef, fillMissingFromRef
\* --------------------------------------------------------------------------
RECURSIVE createFromRef(_, _)
RECURSIVE CreateLoop(_, _, _, _)

\* refVal.map(...) / for (const k of Object.keys(refVal)) into a new container
CreateLoop(refVal, mode, j, out) ==
    IF j > Len(refVal.ks) THEN out
    ELSE IF IsArray(refVal) /\ ~IsIndexKey(refVal.ks[j])
    THEN CreateLoop(refVal, mode, j + 1, out)
    ELSE CreateLoop(refVal, mode, j + 1,
                    Put(out, refVal.ks[j], createFromRef(refVal.vs[j], mode)))

createFromRef(refVal, mode) ==
    IF IsArray(refVal) THEN CreateLoop(refVal, mode, 1, EmptyArr)
    ELSE IF isObject(refVal) THEN CreateLoop(refVal, mode, 1, EmptyObj)
    ELSE IF mode = "ref" THEN refVal
    ELSE Str(<<>>)

RECURSIVE fillMissingFromRef(_, _, _)
RECURSIVE FillArrayLoop(_, _, _, _)
RECURSIVE FillKeysLoop(_, _, _, _)

\* A merge that puts the placeholder over an existing leaf of the target
FillChildOverwrites(tgtVal, refVal, mode) ==
    IF isObject(refVal) /\ isObject(tgtVal) THEN fillMissingFromRef(tgtVal, refVal, mode)
    ELSE IF IsArray(refVal) /\ IsArray(tgtVal) THEN fillMissingFromRef(tgtVal, refVal, mode)
    ELSE IF IsContainer(refVal) THEN tgtVal
    ELSE createFromRef(refVal, mode)

\* What the else-branch leaves at target[k]: the child is filled in place only
\* when it has the kind of refVal
FillChild(tgtVal, refVal, mode) ==
    IF isObject(refVal) /\ isObject(tgtVal) THEN fillMissingFromRef(tgtVal, refVal, mode)
    ELSE IF IsArray(refVal) /\ IsArray(tgtVal) THEN fillMissingFromRef(tgtVal, refVal, mode)
    ELSE tgtVal

\* for (let i = 0; i < ref.length; i++)
FillArrayLoop(target, refArr, mode, i) ==
    IF i >= Length(refArr) THEN target
    ELSE FillArrayLoop(
            IF IsUndefined(Get(target, Dec(i)))
            THEN Put(target, Dec(i), createFromRef(Get(refArr, Dec(i)), mode))
            ELSE Put(target, Dec(i), FillChild(Get(target, Dec(i)), Get(refArr, Dec(i)), mode)),
            refArr, mode, i + 1)

\* for (const k of Object.keys(ref))
FillKeysLoop(target, refNode, mode, j) ==
    IF j > Len(refNode.ks) THEN target
    ELSE FillKeysLoop(
            IF ~Has(target, refNode.ks[j]) \/ IsUndefined(Get(target, refNode.ks[j]))
            THEN Put(target, refNode.ks[j], createFromRef(refNode.vs[j], mode))
            ELSE Put(target, refNode.ks[j],
                     FillChild(Get(target, refNode.ks[j]), refNode.vs[j], mode)),
            refNode, mode, j + 1)

\* fillMissingFromRef(target, ref, mode): the value returned; a target of the
\* kind of ref is filled in place and is the value returned
fillMissingFromRef(target, refNode, mode) ==
    IF IsArray(refNode)
    THEN FillArrayLoop(IF ~IsArray(target) THEN EmptyArr ELSE target, refNode, mode, 0)
    ELSE IF isObject(refNode)
    THEN FillKeysLoop(IF ~isObject(target) THEN EmptyObj ELSE target, refNode, mode, 1)
    ELSE target

\* --------------------------------------------------------------------------
\* Documents a YAML parser can return
\* --------------------------------------------------------------------------
RECURSIVE Size(_)
RECURSIVE SumSizes(_, _)
SumSizes(vs, j) == IF j > Len(vs) THEN 0 ELSE Size(vs[j]) + SumSizes(vs, j + 1)
\* Number of nodes of a tree
Size(n) == 1 + SumSizes(n.vs, 1)

\* Mapping keys of the documents: two plain names and one integer-like name
DocKeys == {<<"a">>, <<"b">>, <<"1">>}

RECURSIVE DocsUpTo(_, _)
RECURSIVE Grow(_, _, _)
\* Every container obtained from c by adding entries of total size <= budget:
\* a mapping gets a new key (in any insertion order), a sequence a next element
Grow(c, budget, leaves) ==
    {c} \cup UNION {
        UNION { Grow(IF IsArray(c) THEN Push(c, child) ELSE Put(c, k, child),
                     budget - Size(child), leaves)
                : k \in IF IsArray(c) THEN {<<>>} ELSE {x \in DocKeys : ~Has(c, x)} }
        : child \in DocsUpTo(budget, leaves) }

\* The documents of at most n nodes whose scalars are among leaves
DocsUpTo(n, leaves) ==
    IF n <= 0 THEN {}
    ELSE leaves \cup Grow(EmptyObj, n - 1, leaves) \cup Grow(EmptyArr, n - 1, leaves)

RefLeaves == {Str(<<"r">>), Num(<<"7">>)}
TgtLeaves == {Str(<<"t">>), Null}

\* readYaml: YAML.parse(raw) ?? {}  (a null document reads as {})
RefDocs == DocsUpTo(MaxRefSize, RefLeaves)
TgtDocs == DocsUpTo(MaxTgtSize, TgtLeaves) \ {Null}

\* --------------------------------------------------------------------------
\* sync-structure.mjs: the script
\* --------------------------------------------------------------------------
\* --missing: "empty" is the default; any other word than "null" and "ref"
\* ("blank", say) takes the default branch of missingLeaf as well
SyncModes == {"empty", "blank", "null", "ref"}

NoRef == [t |-> "none", v |-> <<>>, ks |-> <<>>, vs |-> <<>>]
NoPass == [out |-> Undefined, stats |-> NoStats]
NoRow == [row |-> 0, calls |-> <<>>]

GenIdle ==
    /\ refObj = NoRef
    /\ outputs = <<>>
    /\ warnings = <<>>
    /\ rowIdx = 0
    /\ mergeIdx = 0
    /\ lastRow = NoRow

InitSync ==
    /\ prog = "sync"
    /\ missingMode \in SyncModes
    /\ pc = "start"
    /\ ref \in RefDocs
    /\ tgt \in TgtDocs
    /\ normalized = Undefined
    /\ stats = NoStats
    /\ firstPass = NoPass
    /\ GenIdle

\* A merger that reorders the target tree in place
NormalizeInPlace ==
    /\ prog = "sync"
    /\ pc = "start"
    /\ \E r \in {reorderLike(ref, tgt, <<>>, NoStats)} :
          /\ normalized' = r.out
          /\ tgt' = r.out
          /\ stats' = r.stats
    /\ pc' = "normalized"
    /\ UNCHANGED <<prog, missingMode, ref, firstPass,
                   refObj, outputs, warnings, rowIdx, mergeIdx, lastRow>>

\* const stats = {missing: [], extra: []}; normalized = reorderLike(ref, tgt, "", stats)
Normalize ==
    /\ prog = "sync"
    /\ pc = "start"
    /\ \E r \in {reorderLike(ref, tgt, <<>>, NoStats)} :
          /\ normalized' = r.out
          /\ stats' = r.stats
    /\ pc' = "normalized"
    /\ UNCHANGED <<prog, missingMode, ref, tgt, firstPass,
                   refObj, outputs, warnings, rowIdx, mergeIdx, lastRow>>

\* The merger applied to its own output with the same reference and a new report
NormalizeAgain ==
    /\ prog = "sync"
    /\ pc = "normalized"
    /\ \E r \in {reorderLike(ref, normalized, <<>>, NoStats)} :
          /\ normalized' = r.out
          /\ stats' = r.stats
    /\ firstPass' = [out |-> normalized, stats |-> stats]
    /\ pc' = "again"
    /\ UNCHANGED <<prog, missingMode, ref, tgt,
                   refObj, outputs, warnings, rowIdx, mergeIdx, lastRow>>

NextSync == Normalize \/ NormalizeAgain

SpecSync == InitSync /\ [][NextSync]_vars

\* --------------------------------------------------------------------------
\* generate-locale.mjs: the script
\* --------------------------------------------------------------------------
\* The headers that match the locale prefix, in sheet order
LocaleCols == <<"loc:EN", "loc:FR">>

\* Key cells of a row: plain, dotted and bracketed keys, an index step at the
\* first, a middle and the last position, a key of separators only, two keys
\* in one cell, and cells that hold no key
KeyCells == {
    Str(<<"a">>),
    Str(<<"a", ".", "b">>),
    Str(<<"a", "[", "0", "]">>),
    Str(<<"a", "[", "1", "]">>),
    Str(<<"[", "0", "]">>),
    Str(<<"[", "0", "]", ".", "a">>),
    Str(<<"a", "[", "0", "]", ".", "b">>),
    Str(<<"a", "[", "0", "]", "[", "1", "]">>),
    Str(<<".">>),
    Str(<<"[", "0", "]", ".", "a", ",", " ", "b">>),
    Str(<<" ", ",", "|">>) }

\* The locale cells of a row, from sheet_to_json(ws, {defval: ""}): text in
\* both columns, a blank second cell, a whitespace cell beside a number, a
\* row of blank cells only, and text beside a null cell (an error cell reads
\* as null)
RowCells == {
    <<Str(<<"x">>), Str(<<"x">>)>>,
    <<Str(<<"x">>), Str(<<>>)>>,
    <<Str(<<"y">>), Null>>,
    <<Str(<<" ">>), Num(<<"7">>)>>,
    <<Str(<<>>), Str(<<" ">>)>> }

Rows == [key : KeyCells, cells : RowCells]

\* --ref documents: YAML.parse(raw) ?? {}
GenRefDocs == {
    EmptyObj,
    Str(<<"r">>),
    Push(EmptyArr, Str(<<"r">>)),
    Put(EmptyObj, <<"a">>, Str(<<"r">>)),
    Put(EmptyObj, <<"a">>, Put(EmptyObj, <<"b">>, Num(<<"7">>))),
    Put(EmptyObj, <<"a">>, Push(Push(EmptyArr, Str(<<"r">>)), Num(<<"7">>))),
    Put(EmptyObj, <<"a">>, Push(EmptyArr, Put(EmptyObj, <<"b">>, Str(<<"r">>)))),
    Put(Put(EmptyObj, <<"b">>, Put(EmptyObj, <<"a">>, Push(EmptyArr, Num(<<"7">>)))),
        <<"0">>, Str(<<"r">>)) }

\* --missing must be "blank" or "ref", else the script exits
GenModes == {"blank", "ref"}

SyncIdle ==
    /\ ref = Undefined
    /\ tgt = Undefined
    /\ normalized = Undefined
    /\ stats = NoStats
    /\ firstPass = NoPass

\* for (const col of localeCols) outputs[col] = {}
InitGen ==
    /\ prog = "gen"
    /\ missingMode \in GenModes
    /\ pc = "rows"
    /\ refObj \in GenRefDocs \cup {NoRef}
    /\ outputs = [c \in 1..Len(LocaleCols) |-> EmptyObj]
    /\ warnings = <<>>
    /\ rowIdx = 0
    /\ mergeIdx = 0
    /\ lastRow = NoRow
    /\ SyncIdle

\* warnings.push(`Row ${i + 2} col "${col}" key "${key}": ${e.message}`)
Warning(i, col, key, msg) == [row |-> i + 2, col |-> col, key |-> key, msg |-> msg]

\* One (key, col) pair of the row loop on acc = [outs, warns, calls]; calls
\* keeps, for every setDeep call of the row, its arguments and what it did
Triple(acc, r, i, key, c) ==
    IF isBlank(r.cells[c]) THEN acc
    ELSE With(setDeep(acc.outs[c], key, Str(StringOf(r.cells[c]))), LAMBDA res :
              [outs |-> [acc.outs EXCEPT ![c] = res.tree],
               warns |-> IF res.err # NoError
                         THEN Append(acc.warns, Warning(i, LocaleCols[c], key, res.err))
                         ELSE acc.warns,
               calls |-> Append(acc.calls,
                                [col |-> c, key |-> key,
                                 value |-> Str(StringOf(r.cells[c])),
                                 before |-> acc.outs[c], after |-> res.tree,
                                 err |-> res.err, kinds |-> res.kinds])])

\* for (const col of localeCols), from column c
RECURSIVE ColLoop(_, _, _, _, _)
ColLoop(acc, r, i, key, c) ==
    IF c > Len(LocaleCols) THEN acc
    ELSE With(Triple(acc, r, i, key, c), LAMBDA a : ColLoop(a, r, i, key, c + 1))

\* for (const key of keys), from the k-th key
RECURSIVE KeyLoop(_, _, _, _, _)
KeyLoop(acc, r, i, keys, k) ==
    IF k > Len(keys) THEN acc
    ELSE With(ColLoop(acc, r, i, keys[k], 1), LAMBDA a : KeyLoop(a, r, i, keys, k + 1))

\* One iteration of the row loop: every (key, col) pair of row rowIdx
ProcessRow ==
    /\ prog = "gen"
    /\ pc = "rows"
    /\ rowIdx < MaxRows
    /\ \E r \in Rows :
          \E acc \in {KeyLoop([outs |-> outputs, warns |-> warnings, calls |-> <<>>],
                              r, rowIdx, splitMultiKey(r.key), 1)} :
             /\ outputs' = acc.outs
             /\ warnings' = acc.warns
             /\ lastRow' = [row |-> r, calls |-> acc.calls]
    /\ rowIdx' = rowIdx + 1
    /\ UNCHANGED <<prog, missingMode, pc, ref, tgt, normalized, stats, firstPass,
                   refObj, mergeIdx>>

\* The row loop ends (rows.length >= 1, else the script throws "No rows found")
EndRows ==
    /\ prog = "gen"
    /\ pc = "rows"
    /\ rowIdx >= 1
    /\ pc' = IF refObj # NoRef THEN "merge" ELSE "write"
    /\ lastRow' = NoRow
    /\ UNCHANGED <<prog, missingMode, ref, tgt, normalized, stats, firstPass,
                   refObj, outputs, warnings, rowIdx, mergeIdx>>

\* One iteration of the reference merge loop: the next locale column
MergeCol ==
    /\ prog = "gen"
    /\ pc = "merge"
    /\ mergeIdx < Len(LocaleCols)
    /\ outputs' = [outputs EXCEPT ![mergeIdx + 1] =
                      fillMissingFromRef(outputs[mergeIdx + 1], refObj, missingMode)]
    /\ mergeIdx' = mergeIdx + 1
    /\ pc' = IF mergeIdx + 1 = Len(LocaleCols) THEN "write" ELSE "merge"
    /\ UNCHANGED <<prog, missingMode, ref, tgt, normalized, stats, firstPass,
                   refObj, warnings, rowIdx, lastRow>>

\* One YAML file per locale column is written from outputs
WriteFiles ==
    /\ prog = "gen"
    /\ pc = "write"
    /\ pc' = "done"
    /\ UNCHANGED <<prog, missingMode, ref, tgt, normalized, stats, firstPass,
                   refObj, outputs, warnings, rowIdx, mergeIdx, lastRow>>

NextGen == ProcessRow \/ EndRows \/ MergeCol \/ WriteFiles

SpecGen == InitGen /\ [][NextGen]_vars

\* --------------------------------------------------------------------------
\* unnamed/part_000: the script with the reference merge and no warnings list
\* (parseKey, ensureContainer, setDeep, isBlank, splitMultiKey and
\* createFromRef are the same text as in generate-locale.mjs)
\* --------------------------------------------------------------------------
RECURSIVE fillMissingFromRefPart(_, _, _)
RECURSIVE FillArrayLoopPart(_, _, _, _)
RECURSIVE FillKeysLoopPart(_, _, _, _)

\* fillMissingFromRef(target[k], ref[k], mode) with the result dropped: what
\* the call leaves at target[k].  A child of another kind than refVal is
\* replaced in the callee's local variable only, so it stays as it was.
FillChildPart(tgtVal, refVal, mode) ==
    IF IsArray(refVal)
    THEN IF IsArray(tgtVal) THEN fillMissingFromRefPart(tgtVal, refVal, mode) ELSE tgtVal
    ELSE IF isObject(refVal)
    THEN IF isObject(tgtVal) THEN fillMissingFromRefPart(tgtVal, refVal, mode) ELSE tgtVal
    ELSE tgtVal

\* for (let i = 0; i < ref.length; i++)
FillArrayLoopPart(target, refArr, mode, i) ==
    IF i >= Length(refArr) THEN target
    ELSE FillArrayLoopPart(
            IF IsUndefined(Get(target, Dec(i)))
            THEN Put(target, Dec(i), createFromRef(Get(refArr, Dec(i)), mode))
            ELSE Put(target, Dec(i),
                     FillChildPart(Get(target, Dec(i)), Get(refArr, Dec(i)), mode)),
            refArr, mode, i + 1)

\* for (const k of Object.keys(ref)): if (!(k in target))
FillKeysLoopPart(target, refNode, mode, j) ==
    IF j > Len(refNode.ks) THEN target
    ELSE FillKeysLoopPart(
            IF ~Has(target, refNode.ks[j])
            THEN Put(target, refNode.ks[j], createFromRef(refNode.vs[j], mode))
            ELSE Put(target, refNode.ks[j],
                     FillChildPart(Get(target, refNode.ks[j]), refNode.vs[j], mode)),
            refNode, mode, j + 1)

fillMissingFromRefPart(target, refNode, mode) ==
    IF IsArray(refNode)
    THEN FillArrayLoopPart(IF ~IsArray(target) THEN EmptyArr ELSE target, refNode, mode, 0)
    ELSE IF isObject(refNode)
    THEN FillKeysLoopPart(IF ~isObject(target) THEN EmptyObj ELSE target, refNode, mode, 1)
    ELSE target

\* if (refObj): null, "" and 0 are falsy
Truthy(n) == n.t \notin {"none", "null", "undef"} /\ n # Str(<<>>) /\ n # Num(<<"0">>)

\* let refObj = null / YAML.parse(raw) ?? {}; outputs[col] = {}
InitPart ==
    /\ prog = "part"
    /\ missingMode \in GenModes
    /\ pc = "rows"
    /\ refObj \in GenRefDocs \cup {NoRef}
    /\ outputs = [c \in 1..Len(LocaleCols) |-> EmptyObj]
    /\ warnings = <<>>
    /\ rowIdx = 0
    /\ mergeIdx = 0
    /\ lastRow = NoRow
    /\ SyncIdle

\* One (key, col) pair of the row loop on acc = [outs, calls, err]: setDeep is
\* called outside any try, so once a call has thrown (err) nothing runs
TripleUncaught(acc, r, key, c) ==
    IF acc.err # NoError \/ isBlank(r.cells[c]) THEN acc
    ELSE With(setDeep(acc.outs[c], key, Str(StringOf(r.cells[c]))), LAMBDA res :
              [outs |-> [acc.outs EXCEPT ![c] = res.tree],
               calls |-> Append(acc.calls,
                                [col |-> c, key |-> key,
                                 value |-> Str(StringOf(r.cells[c])),
                                 before |-> acc.outs[c], after |-> res.tree,
                                 err |-> res.err, kinds |-> res.kinds]),
               err |-> res.err])

\* for (const col of localeCols), from column c
RECURSIVE ColLoopUncaught(_, _, _, _)
ColLoopUncaught(acc, r, key, c) ==
    IF c > Len(LocaleCols) THEN acc
    ELSE With(TripleUncaught(acc, r, key, c), LAMBDA a : ColLoopUncaught(a, r, key, c + 1))

\* for (const key of keys), from the k-th key
RECURSIVE KeyLoopUncaught(_, _, _, _)
KeyLoopUncaught(acc, r, keys, k) ==
    IF k > Len(keys) THEN acc
    ELSE With(ColLoopUncaught(acc, r, keys[k], 1), LAMBDA a : KeyLoopUncaught(a, r, keys, k + 1))

\* One iteration of the row loop; an error thrown by setDeep is caught by
\* nothing and ends the process before any file is written
ProcessRowUncaught ==
    /\ prog = "part"
    /\ pc = "rows"
    /\ rowIdx < MaxRows
    /\ \E r \in Rows :
          \E acc \in {KeyLoopUncaught([outs |-> outputs, calls |-> <<>>, err |-> NoError],
                                      r, splitMultiKey(r.key), 1)} :
             /\ outputs' = acc.outs
             /\ lastRow' = [row |-> r, calls |-> acc.calls]
             /\ pc' = IF acc.err # NoError THEN "aborted" ELSE "rows"
    /\ rowIdx' = rowIdx + 1
    /\ UNCHANGED <<prog, missingMode, ref, tgt, normalized, stats, firstPass,
                   refObj, warnings, mergeIdx>>

\* The row loop ends (rows.length >= 1) and if (refObj) chooses the merge
EndRowsPart ==
    /\ prog = "part"
    /\ pc = "rows"
    /\ rowIdx >= 1
    /\ pc' = IF Truthy(refObj) THEN "merge" ELSE "write"
    /\ lastRow' = NoRow
    /\ UNCHANGED <<prog, missingMode, ref, tgt, normalized, stats, firstPass,
                   refObj, outputs, warnings, rowIdx, mergeIdx>>

\* outputs[col] = fillMissingFromRef(outputs[col], refObj, missingMode)
MergeColPart ==
    /\ prog = "part"
    /\ pc = "merge"
    /\ mergeIdx < Len(LocaleCols)
    /\ outputs' = [outputs EXCEPT ![mergeIdx + 1] =
                      fillMissingFromRefPart(outputs[mergeIdx + 1], refObj, missingMode)]
    /\ mergeIdx' = mergeIdx + 1
    /\ pc' = IF mergeIdx + 1 = Len(LocaleCols) THEN "write" ELSE "merge"
    /\ UNCHANGED <<prog, missingMode, ref, tgt, normalized, stats, firstPass,
                   refObj, warnings, rowIdx, lastRow>>

\* One YAML file per locale column is written from outputs
WriteFilesPart ==
    /\ prog = "part"
    /\ pc = "write"
    /\ pc' = "done"
    /\ UNCHANGED <<prog, missingMode, ref, tgt, normalized, stats, firstPass,
                   refObj, outputs, warnings, rowIdx, mergeIdx, lastRow>>

NextPart == ProcessRowUncaught \/ EndRowsPart \/ MergeColPart \/ WriteFilesPart

SpecPart == InitPart /\ [][NextPart]_vars

\* --------------------------------------------------------------------------
\* Either script
\* --------------------------------------------------------------------------
Init == InitSync \/ InitGen
Next == Normalize \/ NormalizeAgain \/ ProcessRow \/ EndRows \/ MergeCol \/ WriteFiles
Spec == Init /\ [][Next]_vars

\* --------------------------------------------------------------------------
\* Paths of a tree, for the properties below
\* --------------------------------------------------------------------------
\* A path is a sequence of steps [num, key]: an index step (num) addresses an
\* element of an array, a property step a key of an object
StepAt(n, j) == [num |-> IsArray(n) /\ IsIndexKey(n.ks[j]), key |-> n.ks[j]]

\* The paths of all nodes of n, the root (<<>>) included
RECURSIVE PathsOf(_)
PathsOf(n) ==
    {<<>>} \cup UNION { {<<StepAt(n, j)>> \o q : q \in PathsOf(n.vs[j])} : j \in 1..Len(n.ks) }

\* The node of n at path p; Undefined when n has none there
RECURSIVE At(_, _)
At(n, p) ==
    IF p = <<>> THEN n
    ELSE IF /\ (IF p[1].num THEN IsArray(n) ELSE isObject(n))
            /\ Has(n, p[1].key)
    THEN At(Get(n, p[1].key), Tail(p))
    ELSE Undefined

Present(n, p) == ~IsUndefined(At(n, p))
IsLeafNode(n) == n.t \in {"str", "num", "null"}

\* The text of a path in the notation of the report
RECURSIVE RenderFrom(_, _)
RenderFrom(prefix, p) ==
    IF p = <<>> THEN prefix
    ELSE RenderFrom(IF p[1].num THEN IndexPath(prefix, NumberOf(p[1].key))
                    ELSE PropPath(prefix, p[1].key),
                    Tail(p))
Render(p) == RenderFrom(<<>>, p)

Prefixes(p) == {SubSeq(p, 1, n) : n \in 1..Len(p)}
Range(f) == {f[i] : i \in 1..Len(f)}

\* The leaf the missing-value mode prescribes in place of reference leaf l
PolicyLeaf(mode, l) ==
    IF mode = "ref" THEN l
    ELSE IF mode = "null" THEN Null
    ELSE Str(<<>>)

\* The reference sub-tree n with every leaf replaced as the mode prescribes
RECURSIVE PolicyCopy(_, _)
PolicyCopy(mode, n) ==
    IF IsLeafNode(n) THEN PolicyLeaf(mode, n)
    ELSE [n EXCEPT !.vs = [j \in 1..Len(n.vs) |-> PolicyCopy(mode, n.vs[j])]]

\* A step of the reference merge loop of generate-locale, and its column
MergeStep == prog = "gen" /\ pc = "merge" /\ mergeIdx' = mergeIdx + 1
MergedCol == mergeIdx + 1

\* --------------------------------------------------------------------------
\* Properties
\* --------------------------------------------------------------------------

\* C1: reference merge is idempotent.  Merging the output of reorderLike
\* again with the same reference returns the same tree, records no path in
\* missing, and records the same set of paths in extra as the first call.
C1_Idempotent ==
    pc = "again" =>
        /\ normalized = firstPass.out
        /\ stats.missing = <<>>
        /\ Range(stats.extra) = Range(firstPass.stats.extra)

\* The first call both filled missing paths and kept extra ones, and the
\* second call has run
C1_Witness ==
    /\ pc = "again"
    /\ firstPass.stats.missing # <<>>
    /\ firstPass.stats.extra # <<>>

\* C2: target-only keys and elements are never dropped and are reported.
\* Every node of the target at a path where the reference has none is in the
\* output with the target's value, and its path or an ancestor's is in extra.
C2_TargetOnlyKept ==
    pc = "normalized" =>
        \A p \in PathsOf(tgt) :
            ~Present(ref, p) =>
                /\ At(normalized, p) = At(tgt, p)
                /\ \E q \in Prefixes(p) : Render(q) \in Range(stats.extra)

\* C3: an existing target value survives where the reference holds a leaf.
\* For reorderLike (either call) and for fillMissingFromRef, at every path
\* where the reference holds a leaf and the tree merged into holds a value,
\* the tree returned holds that value.
C3_LeafKept ==
    [][ /\ (prog = "sync" /\ pc = "start") =>
              \A p \in PathsOf(ref) :
                  (IsLeafNode(At(ref, p)) /\ Present(tgt, p)) =>
                      At(normalized', p) = At(tgt, p)
        /\ (prog = "sync" /\ pc = "normalized") =>
              \A p \in PathsOf(ref) :
                  (IsLeafNode(At(ref, p)) /\ Present(normalized, p)) =>
                      At(normalized', p) = At(normalized, p)
        /\ MergeStep =>
              \A p \in PathsOf(refObj) :
                  (IsLeafNode(At(refObj, p)) /\ Present(outputs[MergedCol], p)) =>
                      At(outputs'[MergedCol], p) = At(outputs[MergedCol], p)
      ]_vars

\* Both locale trees went through fillMissingFromRef, and a cell value of
\* the spreadsheet still sits at the path of a reference leaf that differs
C3_Witness ==
    /\ prog = "gen"
    /\ mergeIdx = Len(LocaleCols)
    /\ \E p \in PathsOf(refObj) :
          /\ At(refObj, p) = Str(<<"r">>)
          /\ At(outputs[1], p) = Str(<<"x">>)

\* C4: a leaf the merge introduces is determined by the missing-value mode.
\* Where the reference has a node and the tree merged into has none, the
\* node the merge puts there is the reference sub-tree with every leaf
\* replaced by the mode's value: the reference leaf under "ref", null under
\* "null", the empty string otherwise.
C4_MissingByMode ==
    [][ /\ (prog = "sync" /\ pc = "start") =>
              \A p \in PathsOf(ref) :
                  ~Present(tgt, p) =>
                      At(normalized', p) = PolicyCopy(missingMode, At(ref, p))
        /\ MergeStep =>
              \A p \in PathsOf(refObj) :
                  (~Present(outputs[MergedCol], p) /\ Present(outputs'[MergedCol], p)) =>
                      At(outputs'[MergedCol], p) = PolicyCopy(missingMode, At(refObj, p))
      ]_vars

\* A whole reference sub-tree with a number leaf was missing in the target
\* and reorderLike returned it with the leaf blanked
C4_Witness ==
    /\ pc = "normalized"
    /\ missingMode = "blank"
    /\ \E p \in PathsOf(ref) :
          /\ Len(p) = 1
          /\ ~Present(tgt, p)
          /\ IsContainer(At(ref, p))
          /\ \E q \in PathsOf(ref) :
                /\ Len(q) = 2 /\ SubSeq(q, 1, 1) = p
                /\ At(ref, q) = Num(<<"7">>)
                /\ At(normalized, q) = Str(<<>>)

\* C5: key order of a merged object.  Where the reference node is an object,
\* the output lists all reference keys first, in the reference's order, then
\* the target-only keys in the target's order, and no other key.
C5_KeyOrder ==
    pc = "normalized" =>
        \A p \in PathsOf(ref) :
            isObject(At(ref, p)) =>
                LET r == At(ref, p)
                    t == IF isObject(At(tgt, p)) THEN At(tgt, p) ELSE EmptyObj
                IN At(normalized, p).ks = r.ks \o SelectSeq(t.ks, LAMBDA k : ~Has(r, k))

C7_ReportSound ==
    pc = "normalized" =>
        /\ \A m \in Range(stats.missing) :
              \E p \in PathsOf(ref) :
                  /\ Render(p) = m
                  /\ ~Present(tgt, p)
                  /\ Present(normalized, p)
        /\ \A x \in Range(stats.extra) :
              \E p \in PathsOf(tgt) :
                  /\ Render(p) = x
                  /\ ~Present(ref, p)
                  /\ At(normalized, p) = At(tgt, p)
        /\ ( /\ ref = Put(Put(EmptyObj, <<"a">>, Str(<<"r">>)), <<"b">>, Str(<<"r">>))
             /\ tgt = Put(EmptyObj, <<"a">>, Str(<<"t">>)) )
           => stats = [missing |-> <<<<"b">>>>, extra |-> <<>>]

\* A call reported a missing array element with its missing parent, and a
\* target-only key
C7_Witness ==
    /\ pc = "normalized"
    /\ Len(stats.missing) >= 2
    /\ \E m \in Range(stats.missing) : "[" \in Range(m)
    /\ stats.extra # <<>>

\* The container that the walk of setDeep reaches in tree by the tokens toks
RECURSIVE AtTokens(_, _)
AtTokens(tree, toks) ==
    IF toks = <<>> THEN tree ELSE AtTokens(Get(tree, toks[1].key), Tail(toks))

CallsOfLastRow == Range(lastRow.calls)

\* C8: for a key path containing [N], after setDeep returns, the container
\* addressed by every index step is an array, and the elements before N that
\* were not set before the call are holes.
C8_IndexStepArrayKind ==
    \A c \in CallsOfLastRow :
        c.err = NoError =>
            \A i \in 1..Len(parseKey(c.key)) :
                parseKey(c.key)[i].num =>
                    LET prefix == SubSeq(parseKey(c.key), 1, i - 1)
                    IN /\ IsArray(AtTokens(c.after, prefix))
                       /\ \A j \in 0..(NumberOf(parseKey(c.key)[i].key) - 1) :
                             IsUndefined(Get(AtTokens(c.before, prefix), Dec(j))) =>
                                 ~Has(AtTokens(c.after, prefix), Dec(j))

\* C9: whenever setDeep processes an index step, at any position of the path,
\* while the current container is not an array, the call fails with the
\* "Expected array" error.
C9_IndexStepOnNonArrayFails ==
    \A c \in CallsOfLastRow :
        \A i \in 1..Len(c.kinds) :
            (parseKey(c.key)[i].num /\ c.kinds[i] # "arr") => c.err = ExpectedArray

\* C10: a key path that parses to zero steps makes setDeep fail; it is never
\* silently accepted.
C10_EmptyPathFails ==
    \A c \in CallsOfLastRow :
        parseKey(c.key) = <<>> => c.err # NoError

\* The setDeep calls of the row just processed that threw
FailedCalls == {n \in 1..Len(lastRow.calls) : lastRow.calls[n].err # NoError}
\* The warnings that name row number rn
WarningsOfRow(rn) == {w \in 1..Len(warnings) : warnings[w].row = rn}
\* Number of (key, column) pairs of row r whose cell is not blank
TriplesOf(r) ==
    Len(splitMultiKey(r.key)) * Cardinality({c \in 1..Len(LocaleCols) : ~isBlank(r.cells[c])})

\* C11: a failure of setDeep during projection is caught and warned.  The run
\* is never aborted by it; after the row with index i = rowIdx - 1 every
\* triple of the row has been applied, and each failed call has exactly one
\* warning, naming row i + 2, the column and the key.
C11_FailureIsWarned ==
    /\ pc # "aborted"
    /\ (pc = "rows" /\ rowIdx >= 1) =>
          /\ Len(lastRow.calls) = TriplesOf(lastRow.row)
          /\ Cardinality(WarningsOfRow(rowIdx + 1)) = Cardinality(FailedCalls)
          /\ \A n \in FailedCalls :
                \E w \in 1..Len(warnings) :
                    warnings[w] = [row |-> rowIdx + 1,
                                   col |-> LocaleCols[lastRow.calls[n].col],
                                   key |-> lastRow.calls[n].key,
                                   msg |-> lastRow.calls[n].err]

\* A cell that is null, undefined or made of white space only
BlankCell(cell) == cell.t \in {"null", "undef"} \/ \A i \in 1..Len(cell.v) : IsSpace(cell.v[i])

\* A step of the row loop of generate-locale
RowStep == prog = "gen" /\ pc = "rows" /\ rowIdx' = rowIdx + 1

\* C12: blank never overwrites or creates a path.  In a step of the row
\* loop, a locale column whose cell is blank gets no setDeep call and keeps
\* its tree exactly, and a row whose key cell yields no key changes no tree.
C12_BlankKeepsTree ==
    [][ RowStep =>
          /\ \A c \in 1..Len(LocaleCols) :
                BlankCell(lastRow'.row.cells[c]) =>
                    /\ outputs'[c] = outputs[c]
                    /\ \A n \in 1..Len(lastRow'.calls) : lastRow'.calls[n].col # c
          /\ splitMultiKey(lastRow'.row.key) = <<>> =>
                (outputs' = outputs /\ lastRow'.calls = <<>>)
      ]_vars

\* The second row wrote its key in the first column and has a blank cell in
\* the second, where the value an earlier row wrote at that key is still held
C12_Witness ==
    /\ prog = "gen" /\ pc = "rows" /\ rowIdx = 2
    /\ BlankCell(lastRow.row.cells[2])
    /\ \E n \in 1..Len(lastRow.calls) :
          /\ lastRow.calls[n].col = 1
          /\ lastRow.calls[n].err = NoError
          /\ Len(parseKey(lastRow.calls[n].key)) >= 2
          /\ AtTokens(outputs[2], parseKey(lastRow.calls[n].key)) = Str(<<"x">>)
          /\ AtTokens(outputs[1], parseKey(lastRow.calls[n].key)) = Str(<<"y">>)

\* child exists and is not of the kind the token next asks for: an array
\* for an index token, an object for a property token
WrongKind(child, next) ==
    ~IsNullish(child) /\ (IF next.num THEN ~IsArray(child) ELSE ~isObject(child))

\* The child that step i of toks addresses in tree
ChildAt(tree, toks, i) == Get(AtTokens(tree, SubSeq(toks, 1, i - 1)), toks[i].key)

\* C13: a child of the wrong kind is replaced.  When setDeep reaches a
\* non-final step (through existing children of the right kind, an index step
\* being on an array) whose child exists but is not of the kind the next step
\* requires, the call throws nothing and leaves there a container of the
\* required kind that holds the next step's key only.
C13_WrongKindReplaced ==
    \A c \in CallsOfLastRow :
        \A i \in 1..(Len(parseKey(c.key)) - 1) :
            LET toks == parseKey(c.key)
                cur == AtTokens(c.before, SubSeq(toks, 1, i - 1))
            IN ( /\ \A j \in 1..(i - 1) :
                       /\ ~IsNullish(ChildAt(c.before, toks, j))
                       /\ ~WrongKind(ChildAt(c.before, toks, j), toks[j + 1])
                 /\ IsContainer(cur)
                 /\ toks[i].num => IsArray(cur)
                 /\ WrongKind(ChildAt(c.before, toks, i), toks[i + 1]) )
               => /\ c.err = NoError
                  /\ IF toks[i + 1].num THEN IsArray(ChildAt(c.after, toks, i))
                     ELSE isObject(ChildAt(c.after, toks, i))
                  /\ ChildAt(c.after, toks, i).ks = <<toks[i + 1].key>>

\* C14: a failed setDeep is atomic.  A call of the row loop that threw left
\* the locale tree exactly as it was before the call, so the tree beside a
\* warning holds no partly applied write.
C14_FailedCallKeepsTree ==
    \A c \in CallsOfLastRow : c.err # NoError => c.after = c.before

\* A call with a path of three steps threw on a tree that earlier writes had
\* built, and its warning is recorded
C14_Witness ==
    /\ prog = "gen"
    /\ warnings # <<>>
    /\ \E c \in CallsOfLastRow :
          /\ c.err = TypeError
          /\ Len(parseKey(c.key)) = 3
          /\ c.before # EmptyObj

====
